---- MODULE Spec2Model ----
(***************************************************************************)
(* Model of caller.go (package multicall): the four batching operations    *)
(* Call, TryCall, CallChunked and TryCallChunked, and the generic          *)
(* chunkInputs.  One behaviour of Spec is one invocation of one of the     *)
(* four operations on a list of Call records; every loop iteration of the  *)
(* source is one step.  SpecChunk applies chunkInputs to bounded inputs.   *)
(***************************************************************************)
EXTENDS Integers, Sequences, FiniteSets, TLC

\* ------------------------------------------------------------------ bounds
\* Longest call list handed to an operation (records live at addresses 1..MaxCalls).
MaxCalls == 3
\* Longest input sequence handed to chunkInputs under SpecChunk.
MaxItems == 4

\* ----------------------------------------------------------------- helpers
Range(s) == {s[k] : k \in DOMAIN s}

RECURSIVE Concat(_)
\* The concatenation of a sequence of sequences, in order.
Concat(ss) == IF ss = <<>> THEN <<>> ELSE Head(ss) \o Concat(Tail(ss))

\* The sequences over S of length 0..n.
SeqsUpTo(S, n) == UNION {[1..k -> S] : k \in 0..n}

\* ------------------------------------------------------------ Call records
\* Addresses of Call records (*Call values).
Ptr == 1..MaxCalls

\* call.Contract.Address of the record at address p.
TargetOf(p) == IF p % 2 = 1 THEN "0xA" ELSE "0xB"

\* Outcome fields a record may carry when the operation starts: a freshly
\* constructed record, or one left behind by an earlier operation.
PriorOutcomes ==
    { [Failed |-> FALSE, Outputs |-> "unset"],
      [Failed |-> TRUE,  Outputs |-> "old"] }

\* Raw return bytes the remote contract may hand back for one call.
ReturnDatas == {"", "0x01", "0x02"}

\* ABI decoding of return bytes into typed outputs; "" does not decode.
Decode == [b \in {"0x01", "0x02"} |-> IF b = "0x01" THEN "one" ELSE "two"]

\* call.Pack(): the call data of the record, or an error when its method
\* is not packable.
Pack(call) ==
    IF call.Method = "bad"
    THEN [ok |-> FALSE, b |-> ""]
    ELSE [ok |-> TRUE,  b |-> IF call.Method = "f" THEN "f()" ELSE "g()"]

\* call.Unpack(b): writes the typed outputs of the record, or fails and
\* leaves them alone.
Unpack(call, b) ==
    IF b \in DOMAIN Decode
    THEN [ok |-> TRUE,  call |-> [call EXCEPT !.Outputs = Decode[b]]]
    ELSE [ok |-> FALSE, call |-> call]

\* ------------------------------------------------------------------ errors
NoErr == [kind |-> "nil", index |-> -1, chunk |-> -1]

\* PackErr counting positions from one.
PackErrOneBased(idx) == [kind |-> "pack", index |-> idx + 1, chunk |-> -1]

\* "failed to pack call inputs at index [%d]: %v"
PackErr(idx) == [kind |-> "pack", index |-> idx, chunk |-> -1]

\* "multicall failed: %v"
MulticallErr == [kind |-> "multicall", index |-> -1, chunk |-> -1]

\* "failed to unpack call outputs at index [%d]: %v"
UnpackErr(idx) == [kind |-> "unpack", index |-> idx, chunk |-> -1]

\* ChunkErr counting chunks from one.
ChunkErrOneBased(c, cause) == [cause EXCEPT !.chunk = c + 1]

\* "call chunk [%d] failed: %v"
ChunkErr(c, cause) == [cause EXCEPT !.chunk = c]

\* ------------------------------------------------------------- chunkInputs
\* chunkInputs without the trailing chunk.
chunkInputsNoTail(size, inputs) ==
    IF Len(inputs) = 0 THEN <<>>
    ELSE IF size <= 0 \/ Len(inputs) < 2 \/ size > Len(inputs) THEN <<inputs>>
    ELSE [c \in 1..(Len(inputs) \div size) |->
            SubSeq(inputs, (c - 1) * size + 1, (c - 1) * size + size)]

\* chunkInputs with the remainder joined to the last full chunk.
chunkInputsMergedTail(size, inputs) ==
    IF Len(inputs) = 0 THEN <<>>
    ELSE IF size <= 0 \/ Len(inputs) < 2 \/ size > Len(inputs) THEN <<inputs>>
    ELSE LET chunkCount == Len(inputs) \div size
         IN  [c \in 1..chunkCount |->
                SubSeq(inputs, (c - 1) * size + 1,
                       IF c = chunkCount THEN Len(inputs) ELSE (c - 1) * size + size)]

\* chunkInputs without the test for an empty input.
chunkInputsEmptyChunk(size, inputs) ==
    IF size <= 0 \/ Len(inputs) < 2 \/ size > Len(inputs) THEN <<inputs>>
    ELSE LET lastChunkSize == Len(inputs) % size
             chunkCount    == Len(inputs) \div size
             full == [c \in 1..chunkCount |->
                        SubSeq(inputs, (c - 1) * size + 1, (c - 1) * size + size)]
         IN  IF lastChunkSize > 0
             THEN Append(full, SubSeq(inputs, chunkCount * size + 1,
                                      chunkCount * size + lastChunkSize))
             ELSE full

\* chunkInputs(chunkSize, inputs): the chunks, computed as the code does.
chunkInputs(size, inputs) ==
    IF Len(inputs) = 0 THEN <<>>
    ELSE IF size <= 0 \/ Len(inputs) < 2 \/ size > Len(inputs) THEN <<inputs>>
    ELSE LET lastChunkSize == Len(inputs) % size
             chunkCount    == Len(inputs) \div size
             full == [c \in 1..chunkCount |->
                        SubSeq(inputs, (c - 1) * size + 1, (c - 1) * size + size)]
         IN  IF lastChunkSize > 0
             THEN Append(full, SubSeq(inputs, chunkCount * size + 1,
                                      chunkCount * size + lastChunkSize))
             ELSE full

\* --------------------------------------------------- the remote aggregation
\* One response entry: Multicall3Result{Success, ReturnData}.
Entry == [Success : BOOLEAN, ReturnData : ReturnDatas]

\* The entry of a response that is longer than its request.
ExtraEntry == [Success |-> TRUE, ReturnData |-> "0x01"]

\* Responses to a request of m entries of which tol[j] says entry j may
\* fail: the conforming ones (one entry per request entry) and the short
\* ones, in which an entry reports failure only when it is tolerated, and
\* one response of m + 1 entries standing for the long ones.
Responses(m, tol) ==
    LET ok(r) == \A j \in DOMAIN r : r[j].Success \/ tol[j]
    IN  {r \in SeqsUpTo(Entry, m) : ok(r)} \cup {[j \in 1..(m + 1) |-> ExtraEntry]}

\* Outcomes of one remote invocation: a transport error, a contract-level
\* revert caused by the untolerated call at position `at`, or a response.
RemoteOutcomes(m, tol) ==
    {[err |-> "transport", at |-> 0, results |-> <<>>]}
    \cup {[err |-> "revert", at |-> j, results |-> <<>>] : j \in {k \in 1..m : ~tol[k]}}
    \cup {[err |-> "none", at |-> 0, results |-> r] : r \in Responses(m, tol)}

\* contract.Aggregate3(opts, multiCalls): tolerance is per entry.
Aggregate3(req) ==
    RemoteOutcomes(Len(req), [j \in 1..Len(req) |-> req[j].AllowFailure])

\* contract.TryAggregate(opts, requireSuccess, multiCalls): one flag for all.
TryAggregate(flag, req) ==
    RemoteOutcomes(Len(req), [j \in 1..Len(req) |-> ~flag])

\* --------------------------------------------------------------------- state
VARIABLES
    op,             \* the operation invoked: "Call", "TryCall", "CallChunked", "TryCallChunked"
    requireSuccess, \* argument of TryCall / TryCallChunked
    chunkSize,      \* argument of the chunked operations
    cooldown,       \* argument of the chunked operations
    calls,          \* the invoker's list: a sequence of record addresses
    heap,           \* address -> Call record
    heap0,          \* the records as they were when the operation was invoked
    pc,             \* position of the operation
    chunks,         \* chunkInputs(chunkSize, calls), ranged over by the chunk loop
    ci,             \* chunk loop index (i of CallChunked / TryCallChunked)
    allCalls,       \* allCalls of the chunked operations
    cur,            \* calls parameter of the running Call / TryCall
    i,              \* loop index of the running Call / TryCall
    multiCalls,     \* the request being built
    results,        \* the response being unpacked
    ret,            \* returned list
    err,            \* returned error
    pauses,         \* history: the time.Sleep calls made, in order
    reqLog,         \* history: the remote invocations issued, in order
    respLog,        \* history: what each remote invocation returned
    packed,         \* history: addresses Pack was called on
    written,        \* history: addresses whose outcome fields were assigned
    cItems,         \* SpecChunk: inputs handed to chunkInputs
    cSize,          \* SpecChunk: chunkSize handed to chunkInputs
    cChunks,        \* SpecChunk: the chunks returned
    cDone           \* SpecChunk: chunkInputs has returned

args      == <<op, requireSuccess, chunkSize, cooldown, calls, heap0>>
prog      == <<pc, chunks, ci, allCalls, cur, i, multiCalls, results, ret, err, heap>>
hist      == <<pauses, reqLog, respLog, packed, written>>
chunkVars == <<cItems, cSize, cChunks, cDone>>
vars      == <<args, prog, hist, chunkVars>>

Ops == {"Call", "TryCall", "CallChunked", "TryCallChunked"}

\* Cooldowns handed to the chunked operations: negative, zero, positive.
Cooldowns == {-1, 0, 1}

\* call.Method of the record at address p when it is packable.
MethodOf(p) == IF p <= 2 THEN "f" ELSE "g"

\* The records an invoker builds: n calls at addresses 1..n with tolerance
\* flags canFail, the call at position badAt (if any) not packable, every
\* record carrying the outcome fields prior.
Records(n, canFail, badAt, prior) ==
    [p \in Ptr |->
        [Target   |-> TargetOf(p),
         Method   |-> IF p = badAt THEN "bad" ELSE MethodOf(p),
         CanFail  |-> p <= n /\ canFail[p],
         Failed   |-> prior.Failed,
         Outputs  |-> prior.Outputs]]

\* Tolerance flags of the n calls handed to operation o: every assignment
\* for the strict operations, which read the flags; all set or all clear
\* for the best-effort operations, which never read them.
CanFails(o, n) ==
    IF o \in {"Call", "CallChunked"}
    THEN [1..n -> BOOLEAN]
    ELSE {[k \in 1..n |-> f] : f \in BOOLEAN}

\* The state in which no operation has run yet.
Idle ==
    /\ pc = "entry" /\ chunks = <<>> /\ ci = 0 /\ allCalls = <<>>
    /\ cur = <<>> /\ i = 0 /\ multiCalls = <<>> /\ results = <<>>
    /\ ret = <<>> /\ err = NoErr
    /\ pauses = <<>> /\ reqLog = <<>> /\ respLog = <<>>
    /\ packed = {} /\ written = {}

Init ==
    /\ op \in Ops
    /\ requireSuccess \in (IF op \in {"TryCall", "TryCallChunked"} THEN BOOLEAN ELSE {FALSE})
    /\ chunkSize \in (IF op \in {"CallChunked", "TryCallChunked"} THEN 0..MaxCalls ELSE {0})
    /\ cooldown \in (IF op \in {"CallChunked", "TryCallChunked"} THEN Cooldowns ELSE {0})
    /\ \E n \in 0..MaxCalls :
         /\ calls = [k \in 1..n |-> k]
         /\ \E canFail \in CanFails(op, n), badAt \in 0..n, prior \in PriorOutcomes :
              heap = Records(n, canFail, badAt, prior)
    /\ heap0 = heap
    /\ Idle
    /\ cItems = <<>> /\ cSize = 0 /\ cChunks = <<>> /\ cDone = FALSE

\* ---------------------------------------------------------------- CallChunked
\* CallChunkedResume assigning the chunk to allCalls instead of appending it.
CallChunkedResumeOverwrites(e) ==
    IF e.kind # "nil"
    THEN /\ pc' = "returned" /\ ret' = calls /\ err' = ChunkErr(ci, e)
         /\ UNCHANGED <<allCalls, ci>>
    ELSE /\ allCalls' = cur /\ ci' = ci + 1 /\ pc' = "loop"
         /\ UNCHANGED <<ret, err>>

\* CallChunkedResume going on to the next chunk whatever Call returned.
CallChunkedResumeCarriesOn(e) ==
    /\ allCalls' = allCalls \o cur /\ ci' = ci + 1 /\ pc' = "loop"
    /\ UNCHANGED <<ret, err>>

\* CallChunkedResume naming the chunk after the one that failed.
CallChunkedResumeNamesNext(e) ==
    IF e.kind # "nil"
    THEN /\ pc' = "returned" /\ ret' = calls /\ err' = ChunkErr(ci + 1, e)
         /\ UNCHANGED <<allCalls, ci>>
    ELSE /\ allCalls' = allCalls \o cur /\ ci' = ci + 1 /\ pc' = "loop"
         /\ UNCHANGED <<ret, err>>

\* CallChunked after its call of Call: the running Call returned (chunk, e).
CallChunkedResume(e) ==
    IF e.kind # "nil"
    THEN /\ pc' = "returned" /\ ret' = calls /\ err' = ChunkErr(ci, e)
         /\ UNCHANGED <<allCalls, ci>>
    ELSE /\ allCalls' = allCalls \o cur /\ ci' = ci + 1 /\ pc' = "loop"
         /\ UNCHANGED <<ret, err>>

\* Call returns (calls, e), to the invoker or to CallChunked.
CallReturn(e) ==
    IF op = "Call"
    THEN /\ pc' = "returned" /\ ret' = cur /\ err' = e
         /\ UNCHANGED <<allCalls, ci>>
    ELSE CallChunkedResume(e)

\* The invoker calls Call.
CallEnter ==
    /\ pc = "entry" /\ op = "Call"
    /\ cur' = calls /\ i' = 0 /\ multiCalls' = <<>> /\ pc' = "pack"
    /\ UNCHANGED <<chunks, ci, allCalls, results, ret, err, heap>>
    /\ UNCHANGED <<args, hist, chunkVars>>

\* Call3Entry with the tolerance flag always set.
Call3EntryAlwaysAllows(call, b) ==
    [Target |-> call.Target, AllowFailure |-> TRUE, CallData |-> b]

\* The request entry Call builds for a record packed to b.
Call3Entry(call, b) ==
    [Target |-> call.Target, AllowFailure |-> call.CanFail, CallData |-> b]

\* One iteration of Call's packing loop.
CallPack ==
    /\ pc = "pack" /\ op \in {"Call", "CallChunked"} /\ i < Len(cur)
    /\ LET call == heap[cur[i + 1]]
           p    == Pack(call)
       IN  /\ packed' = packed \cup {cur[i + 1]}
           /\ IF ~p.ok
              THEN CallReturn(PackErr(i)) /\ UNCHANGED <<multiCalls, i>>
              ELSE /\ multiCalls' = Append(multiCalls, Call3Entry(call, p.b))
                   /\ i' = i + 1
                   /\ UNCHANGED <<pc, ret, err, allCalls, ci>>
    /\ UNCHANGED <<chunks, cur, results, heap>>
    /\ UNCHANGED <<pauses, reqLog, respLog, written>>
    /\ UNCHANGED <<args, chunkVars>>

\* CallAfterAggregate ignoring the error Aggregate3 returned.
CallAfterAggregateIgnoresErr(o) ==
    /\ results' = o.results /\ i' = 0 /\ pc' = "unpack"
    /\ UNCHANGED <<ret, err, allCalls, ci>>

\* Where Call goes once Aggregate3 returned outcome o.
CallAfterAggregate(o) ==
    IF o.err # "none"
    THEN CallReturn(MulticallErr) /\ UNCHANGED <<results, i>>
    ELSE /\ results' = o.results /\ i' = 0 /\ pc' = "unpack"
         /\ UNCHANGED <<ret, err, allCalls, ci>>

\* Call's remote invocation.
CallInvoke ==
    /\ pc = "pack" /\ op \in {"Call", "CallChunked"} /\ i = Len(cur)
    /\ \E o \in Aggregate3(multiCalls) :
         /\ reqLog' = Append(reqLog, [method |-> "aggregate3", requireSuccess |-> FALSE,
                                      calls |-> multiCalls])
         /\ respLog' = Append(respLog, o)
         /\ CallAfterAggregate(o)
    /\ UNCHANGED <<chunks, cur, multiCalls, heap>>
    /\ UNCHANGED <<pauses, packed, written>>
    /\ UNCHANGED <<args, chunkVars>>

\* CallWriteBack addressing the list from its far end.
CallWriteBackMirrored(h, list, idx, result) ==
    LET p == list[Len(list) - idx]
    IN  [h EXCEPT ![p] = Unpack([h[p] EXCEPT !.Failed = ~result.Success],
                                result.ReturnData).call]

\* The record Call leaves at position idx of list for response entry result.
CallWriteBack(h, list, idx, result) ==
    LET p == list[idx + 1]
    IN  [h EXCEPT ![p] = Unpack([h[p] EXCEPT !.Failed = ~result.Success],
                                result.ReturnData).call]

\* CallAfterUnpack carrying on after a failed Unpack.
CallAfterUnpackContinues(ok) ==
    i' = i + 1 /\ UNCHANGED <<pc, ret, err, allCalls, ci>>

\* Where Call goes once Unpack returned: out with an indexed error, or on
\* to the next response entry.
CallAfterUnpack(ok) ==
    IF ~ok
    THEN CallReturn(UnpackErr(i)) /\ UNCHANGED i
    ELSE i' = i + 1 /\ UNCHANGED <<pc, ret, err, allCalls, ci>>

\* One iteration of Call's unpacking loop; calls[i] is out of range when the
\* response is longer than the request.
CallUnpack ==
    /\ pc = "unpack" /\ op \in {"Call", "CallChunked"} /\ i < Len(results)
    /\ IF i >= Len(cur)
       THEN /\ pc' = "panicked"
            /\ UNCHANGED <<heap, written, i, ret, err, allCalls, ci>>
       ELSE LET result == results[i + 1]
                u      == Unpack(heap[cur[i + 1]], result.ReturnData)
            IN  /\ heap' = CallWriteBack(heap, cur, i, result)
                /\ written' = written \cup {cur[i + 1]}
                /\ CallAfterUnpack(u.ok)
    /\ UNCHANGED <<chunks, cur, multiCalls, results>>
    /\ UNCHANGED <<pauses, reqLog, respLog, packed>>
    /\ UNCHANGED <<args, chunkVars>>

\* CallDone reporting an error when the response is shorter than the request.
CallDoneRejectsShort ==
    /\ pc = "unpack" /\ op \in {"Call", "CallChunked"} /\ i = Len(results)
    /\ CallReturn(IF Len(results) < Len(cur) THEN MulticallErr ELSE NoErr)
    /\ UNCHANGED <<chunks, cur, i, multiCalls, results, heap>>
    /\ UNCHANGED <<args, hist, chunkVars>>

\* Call's unpacking loop is over: return calls, nil.
CallDone ==
    /\ pc = "unpack" /\ op \in {"Call", "CallChunked"} /\ i = Len(results)
    /\ CallReturn(NoErr)
    /\ UNCHANGED <<chunks, cur, i, multiCalls, results, heap>>
    /\ UNCHANGED <<args, hist, chunkVars>>

\* The invoker calls CallChunked: the range expression is evaluated once.
CallChunkedEnter ==
    /\ pc = "entry" /\ op = "CallChunked"
    /\ chunks' = chunkInputs(chunkSize, calls)
    /\ ci' = 0 /\ allCalls' = <<>> /\ pc' = "loop"
    /\ UNCHANGED <<cur, i, multiCalls, results, ret, err, heap>>
    /\ UNCHANGED <<args, hist, chunkVars>>

\* CallChunkedPauses without the test for the first chunk.
CallChunkedPausesEveryChunk(c) == cooldown > 0

\* Whether CallChunked sleeps before the chunk of index c.
CallChunkedPauses(c) == c > 0 /\ cooldown > 0

\* CallChunked sleeps between two chunks.
CallChunkedSleep ==
    /\ pc = "loop" /\ op = "CallChunked" /\ ci < Len(chunks)
    /\ CallChunkedPauses(ci)
    /\ pauses' = Append(pauses, [d |-> cooldown, before |-> ci])
    /\ pc' = "slept"
    /\ UNCHANGED <<chunks, ci, allCalls, cur, i, multiCalls, results, ret, err, heap>>
    /\ UNCHANGED <<reqLog, respLog, packed, written>>
    /\ UNCHANGED <<args, chunkVars>>

\* CallChunked hands the chunk of index ci to Call.
CallChunkedCall ==
    /\ op = "CallChunked"
    /\ IF pc = "loop" THEN ci < Len(chunks) /\ ~CallChunkedPauses(ci) ELSE pc = "slept"
    /\ cur' = chunks[ci + 1] /\ i' = 0 /\ multiCalls' = <<>> /\ results' = <<>>
    /\ pc' = "pack"
    /\ UNCHANGED <<chunks, ci, allCalls, ret, err, heap>>
    /\ UNCHANGED <<args, hist, chunkVars>>

\* CallChunked's loop is over: return allCalls, nil.
CallChunkedExit ==
    /\ pc = "loop" /\ op = "CallChunked" /\ ci = Len(chunks)
    /\ ret' = allCalls /\ err' = NoErr /\ pc' = "returned"
    /\ UNCHANGED <<chunks, ci, allCalls, cur, i, multiCalls, results, heap>>
    /\ UNCHANGED <<args, hist, chunkVars>>

\* ------------------------------------------------------------- TryCallChunked
\* TryCallChunkedResume returning the chunks completed so far on an error.
TryCallChunkedResumePartial(e) ==
    IF e.kind # "nil"
    THEN /\ pc' = "returned" /\ ret' = allCalls /\ err' = ChunkErr(ci, e)
         /\ UNCHANGED <<allCalls, ci>>
    ELSE /\ allCalls' = allCalls \o cur /\ ci' = ci + 1 /\ pc' = "loop"
         /\ UNCHANGED <<ret, err>>

\* TryCallChunkedResume leaving the loop after the first chunk that succeeds.
TryCallChunkedResumeStopsAfterOne(e) ==
    IF e.kind # "nil"
    THEN /\ pc' = "returned" /\ ret' = calls /\ err' = ChunkErr(ci, e)
         /\ UNCHANGED <<allCalls, ci>>
    ELSE /\ allCalls' = allCalls \o cur /\ ci' = Len(chunks) /\ pc' = "loop"
         /\ UNCHANGED <<ret, err>>

\* TryCallChunked after its call of TryCall: the running TryCall returned (chunk, e).
TryCallChunkedResume(e) ==
    IF e.kind # "nil"
    THEN /\ pc' = "returned" /\ ret' = calls /\ err' = ChunkErr(ci, e)
         /\ UNCHANGED <<allCalls, ci>>
    ELSE /\ allCalls' = allCalls \o cur /\ ci' = ci + 1 /\ pc' = "loop"
         /\ UNCHANGED <<ret, err>>

\* TryCall returns (calls, e), to the invoker or to TryCallChunked.
TryCallReturn(e) ==
    IF op = "TryCall"
    THEN /\ pc' = "returned" /\ ret' = cur /\ err' = e
         /\ UNCHANGED <<allCalls, ci>>
    ELSE TryCallChunkedResume(e)

\* The invoker calls TryCall.
TryCallEnter ==
    /\ pc = "entry" /\ op = "TryCall"
    /\ cur' = calls /\ i' = 0 /\ multiCalls' = <<>> /\ pc' = "pack"
    /\ UNCHANGED <<chunks, ci, allCalls, results, ret, err, heap>>
    /\ UNCHANGED <<args, hist, chunkVars>>

\* The request entry TryCall builds for a record packed to b.
CallEntry(call, b) ==
    [Target |-> call.Target, CallData |-> b]

\* One iteration of TryCall's packing loop.
TryCallPack ==
    /\ pc = "pack" /\ op \in {"TryCall", "TryCallChunked"} /\ i < Len(cur)
    /\ LET call == heap[cur[i + 1]]
           p    == Pack(call)
       IN  /\ packed' = packed \cup {cur[i + 1]}
           /\ IF ~p.ok
              THEN TryCallReturn(PackErr(i)) /\ UNCHANGED <<multiCalls, i>>
              ELSE /\ multiCalls' = Append(multiCalls, CallEntry(call, p.b))
                   /\ i' = i + 1
                   /\ UNCHANGED <<pc, ret, err, allCalls, ci>>
    /\ UNCHANGED <<chunks, cur, results, heap>>
    /\ UNCHANGED <<pauses, reqLog, respLog, written>>
    /\ UNCHANGED <<args, chunkVars>>

\* TryCallAfterAggregate returning nil for the error TryAggregate returned.
TryCallAfterAggregateSwallows(o) ==
    IF o.err # "none"
    THEN TryCallReturn(NoErr) /\ UNCHANGED <<results, i>>
    ELSE /\ results' = o.results /\ i' = 0 /\ pc' = "unpack"
         /\ UNCHANGED <<ret, err, allCalls, ci>>

\* Where TryCall goes once TryAggregate returned outcome o.
TryCallAfterAggregate(o) ==
    IF o.err # "none"
    THEN TryCallReturn(MulticallErr) /\ UNCHANGED <<results, i>>
    ELSE /\ results' = o.results /\ i' = 0 /\ pc' = "unpack"
         /\ UNCHANGED <<ret, err, allCalls, ci>>

\* The flag TryCall passes to TryAggregate.
TryCallFlag == requireSuccess

\* TryCall's remote invocation.
TryCallInvoke ==
    /\ pc = "pack" /\ op \in {"TryCall", "TryCallChunked"} /\ i = Len(cur)
    /\ \E o \in TryAggregate(TryCallFlag, multiCalls) :
         /\ reqLog' = Append(reqLog, [method |-> "tryAggregate",
                                      requireSuccess |-> TryCallFlag,
                                      calls |-> multiCalls])
         /\ respLog' = Append(respLog, o)
         /\ TryCallAfterAggregate(o)
    /\ UNCHANGED <<chunks, cur, multiCalls, heap>>
    /\ UNCHANGED <<pauses, packed, written>>
    /\ UNCHANGED <<args, chunkVars>>

\* TryCallWriteBack writing every response entry onto the head of the list.
TryCallWriteBackHead(h, list, idx, result) ==
    LET p == list[1]
    IN  [h EXCEPT ![p] = Unpack([h[p] EXCEPT !.Failed = ~result.Success],
                                result.ReturnData).call]

\* The record TryCall leaves at position idx of list for response entry result.
TryCallWriteBack(h, list, idx, result) ==
    LET p == list[idx + 1]
    IN  [h EXCEPT ![p] = Unpack([h[p] EXCEPT !.Failed = ~result.Success],
                                result.ReturnData).call]

\* Where TryCall goes once Unpack returned: out with an indexed error, or on
\* to the next response entry.
TryCallAfterUnpack(ok) ==
    IF ~ok
    THEN TryCallReturn(UnpackErr(i)) /\ UNCHANGED i
    ELSE i' = i + 1 /\ UNCHANGED <<pc, ret, err, allCalls, ci>>

\* One iteration of TryCall's unpacking loop; calls[i] is out of range when
\* the response is longer than the request.
TryCallUnpack ==
    /\ pc = "unpack" /\ op \in {"TryCall", "TryCallChunked"} /\ i < Len(results)
    /\ IF i >= Len(cur)
       THEN /\ pc' = "panicked"
            /\ UNCHANGED <<heap, written, i, ret, err, allCalls, ci>>
       ELSE LET result == results[i + 1]
                u      == Unpack(heap[cur[i + 1]], result.ReturnData)
            IN  /\ heap' = TryCallWriteBack(heap, cur, i, result)
                /\ written' = written \cup {cur[i + 1]}
                /\ TryCallAfterUnpack(u.ok)
    /\ UNCHANGED <<chunks, cur, multiCalls, results>>
    /\ UNCHANGED <<pauses, reqLog, respLog, packed>>
    /\ UNCHANGED <<args, chunkVars>>

\* TryCall's unpacking loop is over: return calls, nil.
TryCallDone ==
    /\ pc = "unpack" /\ op \in {"TryCall", "TryCallChunked"} /\ i = Len(results)
    /\ TryCallReturn(NoErr)
    /\ UNCHANGED <<chunks, cur, i, multiCalls, results, heap>>
    /\ UNCHANGED <<args, hist, chunkVars>>

\* The invoker calls TryCallChunked: the range expression is evaluated once.
TryCallChunkedEnter ==
    /\ pc = "entry" /\ op = "TryCallChunked"
    /\ chunks' = chunkInputs(chunkSize, calls)
    /\ ci' = 0 /\ allCalls' = <<>> /\ pc' = "loop"
    /\ UNCHANGED <<cur, i, multiCalls, results, ret, err, heap>>
    /\ UNCHANGED <<args, hist, chunkVars>>

\* Whether TryCallChunked sleeps before the chunk of index c.
TryCallChunkedPauses(c) == c > 0 /\ cooldown > 0

\* TryCallChunked sleeps between two chunks.
TryCallChunkedSleep ==
    /\ pc = "loop" /\ op = "TryCallChunked" /\ ci < Len(chunks)
    /\ TryCallChunkedPauses(ci)
    /\ pauses' = Append(pauses, [d |-> cooldown, before |-> ci])
    /\ pc' = "slept"
    /\ UNCHANGED <<chunks, ci, allCalls, cur, i, multiCalls, results, ret, err, heap>>
    /\ UNCHANGED <<reqLog, respLog, packed, written>>
    /\ UNCHANGED <<args, chunkVars>>

\* TryCallChunked hands the chunk of index ci to TryCall.
TryCallChunkedCall ==
    /\ op = "TryCallChunked"
    /\ IF pc = "loop" THEN ci < Len(chunks) /\ ~TryCallChunkedPauses(ci) ELSE pc = "slept"
    /\ cur' = chunks[ci + 1] /\ i' = 0 /\ multiCalls' = <<>> /\ results' = <<>>
    /\ pc' = "pack"
    /\ UNCHANGED <<chunks, ci, allCalls, ret, err, heap>>
    /\ UNCHANGED <<args, hist, chunkVars>>

\* TryCallChunked's loop is over: return allCalls, nil.
TryCallChunkedExit ==
    /\ pc = "loop" /\ op = "TryCallChunked" /\ ci = Len(chunks)
    /\ ret' = allCalls /\ err' = NoErr /\ pc' = "returned"
    /\ UNCHANGED <<chunks, ci, allCalls, cur, i, multiCalls, results, heap>>
    /\ UNCHANGED <<args, hist, chunkVars>>

\* ------------------------------------------------------------ specifications
Next ==
    \/ CallEnter \/ CallPack \/ CallInvoke \/ CallUnpack \/ CallDone
    \/ CallChunkedEnter \/ CallChunkedSleep \/ CallChunkedCall \/ CallChunkedExit
    \/ TryCallEnter \/ TryCallPack \/ TryCallInvoke \/ TryCallUnpack \/ TryCallDone
    \/ TryCallChunkedEnter \/ TryCallChunkedSleep \/ TryCallChunkedCall
    \/ TryCallChunkedExit

Spec == Init /\ [][Next]_vars

\* Elements handed to chunkInputs under SpecChunk.
Items == {"x", "y"}

\* chunkInputs on its own: any size from -1 to MaxItems + 1, any input of
\* at most MaxItems elements.
InitChunk ==
    /\ cItems \in SeqsUpTo(Items, MaxItems)
    /\ cSize \in -1..(MaxItems + 1)
    /\ cChunks = <<>> /\ cDone = FALSE
    /\ op = "Call" /\ requireSuccess = FALSE /\ chunkSize = 0 /\ cooldown = 0
    /\ calls = <<>> /\ heap = Records(0, <<>>, 0, CHOOSE o \in PriorOutcomes : ~o.Failed)
    /\ heap0 = heap
    /\ Idle

\* chunkInputs(cSize, cItems) returns.
ApplyChunk ==
    /\ ~cDone
    /\ cChunks' = chunkInputs(cSize, cItems)
    /\ cDone' = TRUE
    /\ UNCHANGED <<cItems, cSize, args, prog, hist>>

NextChunk == ApplyChunk

SpecChunk == InitChunk /\ [][NextChunk]_vars

\* -------------------------------------------------------------------- claims
Chunked == op \in {"CallChunked", "TryCallChunked"}
Strict  == op \in {"Call", "CallChunked"}
Last(s) == s[Len(s)]
Decodes(b) == b \in DOMAIN Decode

\* The list handed to the k-th remote invocation's Call / TryCall.
ListOf(k) == IF Chunked THEN chunks[k] ELSE calls

\* The request entry the record at address p is to be sent as.
EntryFor(p) ==
    IF Strict
    THEN [Target |-> TargetOf(p), AllowFailure |-> heap0[p].CanFail,
          CallData |-> Pack(heap0[p]).b]
    ELSE [Target |-> TargetOf(p), CallData |-> Pack(heap0[p]).b]

\* Number of positions of the input that precede chunk c.
Before(c) == Len(Concat(SubSeq(chunks, 1, c - 1)))

\* C1. Positional integrity: every step that processes the response entry
\* at position i sets calls[i].Failed to the negation of that entry's
\* success flag, whatever it was, unpacks that entry's return data into
\* calls[i], and changes no other record.
C1_PositionalIntegrity ==
    [][ (pc = "unpack" /\ i < Len(results) /\ i < Len(cur)) =>
          LET p == cur[i + 1]
              r == results[i + 1]
          IN  /\ heap'[p].Failed = ~r.Success
              /\ heap'[p].Outputs = IF Decodes(r.ReturnData)
                                    THEN Decode[r.ReturnData]
                                    ELSE heap[p].Outputs
              /\ heap'[p].Target = heap[p].Target
              /\ heap'[p].CanFail = heap[p].CanFail
              /\ \A q \in Ptr \ {p} : heap'[q] = heap[q] ]_vars

\* A strict call on mixed tolerance flags has written a failure over a
\* clear flag and a success over a set flag, each on its own record.
C1_Witness ==
    /\ pc = "returned" /\ op = "Call" /\ err = NoErr
    /\ Len(calls) >= 2 /\ written = Range(calls)
    /\ heap[1].CanFail /\ ~heap[2].CanFail
    /\ heap[1].Failed /\ ~heap[2].Failed /\ heap0[2].Failed
    /\ heap[1].Outputs = "one" /\ heap[2].Outputs = "two"

\* C2. Request integrity: the k-th remote invocation carries exactly one
\* entry per call of the list it was issued for, entry j built from the
\* j-th call (target, packed arguments and, in strict mode, its own
\* CanFail), and in best-effort mode the requireSuccess flag as given.
C2_RequestIntegrity ==
    \A k \in 1..Len(reqLog) :
        /\ k <= (IF Chunked THEN Len(chunks) ELSE 1)
        /\ Len(reqLog[k].calls) = Len(ListOf(k))
        /\ \A j \in 1..Len(ListOf(k)) : reqLog[k].calls[j] = EntryFor(ListOf(k)[j])
        /\ reqLog[k].method = (IF Strict THEN "aggregate3" ELSE "tryAggregate")
        /\ ~Strict => reqLog[k].requireSuccess = requireSuccess

\* A strict chunked call has issued two requests, the first with a
\* tolerant and an intolerant entry.
C2_Witness ==
    /\ op = "CallChunked" /\ Len(reqLog) = 2
    /\ Len(reqLog[1].calls) = 2 /\ Len(reqLog[2].calls) = 1
    /\ reqLog[1].calls[1].AllowFailure /\ ~reqLog[1].calls[2].AllowFailure

\* C3. Chunk partition law: the chunks chunkInputs returns, concatenated
\* in order, are the input sequence, and none of them is empty.
C3_ChunkPartition ==
    cDone => /\ Concat(cChunks) = cItems
             /\ \A c \in 1..Len(cChunks) : Len(cChunks[c]) > 0

\* chunkInputs has returned several chunks, the last one shorter than size.
C3_Witness ==
    /\ cDone /\ Len(cChunks) >= 2
    /\ Len(cChunks[Len(cChunks)]) < cSize
    /\ "x" \in Range(cItems) /\ "y" \in Range(cItems)

\* C4. Chunked success result: a chunked operation that returns a nil error
\* returns the input's records, address for address, and every record
\* carries what the response of its own chunk held at its position.
C4_ChunkedSuccess ==
    (pc = "returned" /\ Chunked /\ err = NoErr) =>
        /\ Len(ret) = Len(calls)
        /\ \A k \in 1..Len(calls) : ret[k] = calls[k]
        /\ Len(respLog) = Len(chunks)
        /\ \A c \in 1..Len(chunks) : \A j \in 1..Len(chunks[c]) :
             LET p    == calls[Before(c) + j]
                 resp == respLog[c].results
             IN  IF j <= Len(resp)
                 THEN /\ heap[p].Failed = ~resp[j].Success
                      /\ heap[p].Outputs = Decode[resp[j].ReturnData]
                 ELSE /\ heap[p].Failed = heap0[p].Failed
                      /\ heap[p].Outputs = heap0[p].Outputs

\* A best-effort chunked call over several chunks has returned nil with
\* every record written, one of them as failed.
C4_Witness ==
    /\ pc = "returned" /\ op = "TryCallChunked" /\ err = NoErr
    /\ Len(chunks) >= 2 /\ written = Range(calls)
    /\ \E p \in Range(calls) : heap[p].Failed /\ ~heap0[p].Failed
    /\ \E p \in Range(calls) : ~heap[p].Failed /\ heap[p].Outputs = "two"

\* C5. Chunk-level abort: a chunked operation whose chunk k fails returns
\* at once the whole input list and an error that names k and carries the
\* cause; no later chunk is packed, submitted or written to.
C5_ChunkAbort ==
    (pc = "returned" /\ Chunked /\ err.kind # "nil") =>
        LET later == UNION {Range(chunks[c]) : c \in (ci + 2)..Len(chunks)}
        IN  /\ err.chunk = ci /\ ci < Len(chunks)
            /\ ret = calls
            /\ allCalls = Concat(SubSeq(chunks, 1, ci))
            /\ Len(reqLog) = (IF err.kind = "pack" THEN ci ELSE ci + 1)
            /\ packed \cap later = {}
            /\ written \cap later = {}
            /\ \A p \in later : heap[p] = heap0[p]
            /\ err.kind = "pack" =>
                 heap0[chunks[ci + 1][err.index + 1]].Method = "bad"
            /\ err.kind = "multicall" => Last(respLog).err # "none"
            /\ err.kind = "unpack" =>
                 ~Decodes(Last(respLog).results[err.index + 1].ReturnData)

\* The second of three chunks failed remotely after the first was written.
C5_Witness ==
    /\ pc = "returned" /\ op = "CallChunked" /\ err.kind = "multicall"
    /\ err.chunk = 1 /\ Len(chunks) = 3
    /\ ret = calls /\ allCalls = chunks[1] /\ allCalls # calls
    /\ written = Range(chunks[1])

\* Whether the call at address p, as the invoker built it, may fail
\* without failing the aggregation.
Tolerated(p) == IF Strict THEN heap0[p].CanFail ELSE ~requireSuccess

\* C6. Tolerated failure is a normal outcome: when Call / TryCall gets a
\* full response in which exactly one entry reports failure and every
\* other entry reports success with its return data, it returns a nil
\* error, exactly that one record ends with Failed set, and the others end
\* with Failed clear and their outputs decoded.
C6_ToleratedFailureIsNormal ==
    ( /\ pc = "returned" /\ ~Chunked
      /\ Len(respLog) = 1 /\ respLog[1].err = "none"
      /\ Len(results) = Len(calls) /\ Len(calls) >= 2
      /\ Cardinality({j \in 1..Len(results) : ~results[j].Success}) = 1
      /\ \A j \in 1..Len(results) :
            results[j].Success => Decodes(results[j].ReturnData) )
    => /\ err = NoErr
       /\ \A j \in 1..Len(calls) :
            /\ heap[calls[j]].Failed = ~results[j].Success
            /\ results[j].Success =>
                 heap[calls[j]].Outputs = Decode[results[j].ReturnData]

\* C7. Fail-fast abort: when the aggregation reverts because of a call
\* that is not tolerated, the operation on that chunk returns an error and
\* no record of the chunk is written; no record ever comes to carry Failed
\* for a call that is not tolerated.
C7_FailFast ==
    /\ (Len(respLog) > 0 /\ Last(respLog).err = "revert") =>
          /\ ~Tolerated(cur[Last(respLog).at])
          /\ pc = "returned" /\ err.kind = "multicall"
          /\ err.chunk = (IF Chunked THEN ci ELSE -1)
          /\ \A p \in Range(cur) : p \notin written /\ heap[p] = heap0[p]
    /\ \A p \in written : heap[p].Failed => Tolerated(p)

\* A strict call reverted on its intolerant second call, after a tolerant
\* first one.
C7_Witness ==
    /\ pc = "returned" /\ op = "Call" /\ Len(calls) >= 2
    /\ Len(respLog) = 1 /\ respLog[1].err = "revert" /\ respLog[1].at = 2
    /\ heap0[1].CanFail /\ ~heap0[2].CanFail

\* C8. Remote failure leaves outcomes untouched: when the remote
\* invocation returns an error, Call / TryCall return the wrapped error
\* with the list they were given, and no record of that list has changed.
C8_RemoteFailureFrame ==
    (Len(respLog) > 0 /\ Last(respLog).err # "none") =>
        /\ pc = "returned" /\ err.kind = "multicall" /\ err.index = -1
        /\ \A p \in Range(cur) : p \notin written /\ heap[p] = heap0[p]
        /\ ~Chunked => /\ ret = calls /\ cur = calls
                       /\ heap = heap0 /\ written = {}

\* A best-effort call on records that carry earlier outcomes met a
\* transport error.
C8_Witness ==
    /\ pc = "returned" /\ op = "TryCall" /\ Len(calls) >= 2
    /\ Len(respLog) = 1 /\ respLog[1].err = "transport"
    /\ heap0[1].Failed /\ heap0[1].Outputs = "old"

\* C9. Encode failure precedes the network: once Pack fails on the call at
\* position i of a chunk, Call / TryCall have returned an error carrying i
\* (counted within the chunk), no remote invocation was issued for the
\* chunk, no record of it has changed and no later call was packed.
C9_EncodeFailure ==
    /\ \A p \in packed : heap0[p].Method = "bad" =>
          /\ pc = "returned" /\ err.kind = "pack"
          /\ err.index \in 0..(Len(cur) - 1) /\ cur[err.index + 1] = p
          /\ err.chunk = (IF Chunked THEN ci ELSE -1)
          /\ Len(reqLog) = (IF Chunked THEN ci ELSE 0)
          /\ Len(multiCalls) = err.index
          /\ \A q \in Range(cur) : q \notin written /\ heap[q] = heap0[q]
          /\ \A j \in (err.index + 2)..Len(cur) : cur[j] \notin packed
    /\ err.kind = "pack" => \E p \in packed : heap0[p].Method = "bad"

\* The first call of the second chunk failed to pack: global position 2,
\* position 0 within its chunk.
C9_Witness ==
    /\ pc = "returned" /\ op = "CallChunked" /\ err.kind = "pack"
    /\ err.chunk = 1 /\ err.index = 0
    /\ Len(chunks[1]) = 2 /\ heap0[calls[3]].Method = "bad"
    /\ Len(reqLog) = 1

\* C10. Abort on first decode error: once Unpack fails on response entry
\* i, Call / TryCall have returned an error carrying i and the list they
\* were given; the records after position i are as they were, and the
\* outcomes written before i and the Failed flag written at i stand.
C10_DecodeAbort ==
    /\ \A j \in 1..Len(results) :
          (j <= Len(cur) /\ cur[j] \in written /\ ~Decodes(results[j].ReturnData))
          => (pc = "returned" /\ err.kind = "unpack" /\ err.index = j - 1)
    /\ (pc = "returned" /\ err.kind = "unpack") =>
          LET x == err.index + 1
          IN  /\ x \in 1..Len(results) /\ x <= Len(cur)
              /\ ~Decodes(results[x].ReturnData)
              /\ err.chunk = (IF Chunked THEN ci ELSE -1)
              /\ ~Chunked => ret = calls /\ cur = calls
              /\ \A j \in 1..(x - 1) :
                    /\ heap[cur[j]].Failed = ~results[j].Success
                    /\ heap[cur[j]].Outputs = Decode[results[j].ReturnData]
              /\ heap[cur[x]].Failed = ~results[x].Success
              /\ \A j \in (x + 1)..Len(cur) :
                    cur[j] \notin written /\ heap[cur[j]] = heap0[cur[j]]

\* The second of three response entries failed to unpack although the
\* third would have: the first record is decoded, the second has its flag
\* flipped, the third is as it was.
C10_Witness ==
    /\ pc = "returned" /\ op = "Call" /\ err.kind = "unpack" /\ err.index = 1
    /\ Len(calls) = 3 /\ Len(results) = 3
    /\ heap[1].Outputs = "one"
    /\ heap[2].Failed # heap0[2].Failed
    /\ Decodes(results[3].ReturnData)
    /\ heap[3] = heap0[3]

\* Whether the operation is inside the Call / TryCall of chunk ci.
InChunk == Chunked /\ pc \in {"pack", "unpack", "panicked"}

\* C11. Strictly sequential chunk processing: a chunked operation issues
\* its remote invocations in increasing chunk order, each has returned
\* before the operation moves on, and the invocation for a chunk is issued
\* only once every response entry of every earlier chunk is written back
\* onto its record.
C11_Sequential ==
    [][ (Chunked /\ reqLog' # reqLog) =>
          /\ Len(reqLog) = ci /\ Len(respLog) = ci
          /\ Len(reqLog') = ci + 1 /\ Len(respLog') = ci + 1
          /\ SubSeq(reqLog', 1, ci) = reqLog
          /\ ci < Len(chunks)
          /\ Len(reqLog'[ci + 1].calls) = Len(chunks[ci + 1])
          /\ \A j \in 1..Len(chunks[ci + 1]) :
                reqLog'[ci + 1].calls[j] = EntryFor(chunks[ci + 1][j])
          /\ \A c \in 1..ci :
                /\ respLog[c].err = "none"
                /\ Len(respLog[c].results) <= Len(chunks[c])
                /\ \A j \in 1..Len(respLog[c].results) :
                      LET p == chunks[c][j]
                          r == respLog[c].results[j]
                      IN  /\ p \in written
                          /\ heap[p].Failed = ~r.Success
                          /\ heap[p].Outputs = Decode[r.ReturnData] ]_vars

\* The third chunk's request is out and answered, the first two chunks
\* are written.
C11_Witness ==
    /\ op = "CallChunked" /\ Len(chunks) = 3 /\ Len(reqLog) = 3
    /\ ci = 2 /\ pc = "unpack"
    /\ written = Range(chunks[1]) \cup Range(chunks[2])

\* C12 as stated: K chunks completed with a positive cooldown make exactly
\* K - 1 pauses.
C12_PacingAsStated ==
    (pc = "returned" /\ Chunked /\ err = NoErr /\ cooldown > 0) =>
        Len(pauses) = Len(chunks) - 1

\* C12, amended. Pacing: with a positive cooldown d the k-th pause lasts d
\* and falls after chunk k - 1 has completed and before chunk k is
\* submitted, so a run of K >= 1 chunks to completion makes exactly K - 1
\* pauses, none before the first chunk and none after the last, and a run
\* on an empty input (K = 0) makes none; with a cooldown <= 0 there is no
\* pause at all.
C12_Pacing ==
    /\ cooldown <= 0 => pauses = <<>>
    /\ ~Chunked => pauses = <<>>
    /\ \A k \in 1..Len(pauses) :
          /\ pauses[k].d = cooldown /\ pauses[k].before = k
          /\ k < Len(chunks)
          /\ Len(reqLog) >= k
    /\ (cooldown > 0 /\ pc = "slept") =>
          Len(pauses) = ci /\ Len(reqLog) = ci /\ ci >= 1
    /\ (cooldown > 0 /\ InChunk) => Len(pauses) = ci
    /\ (cooldown > 0 /\ Chunked /\ pc = "loop") =>
          Len(pauses) = (IF ci = 0 THEN 0 ELSE ci - 1)
    /\ (pc = "returned" /\ Chunked /\ err = NoErr /\ cooldown > 0) =>
          Len(pauses) = (IF Len(chunks) = 0 THEN 0 ELSE Len(chunks) - 1)

\* Three chunks ran to completion with two pauses between them.
C12_Witness ==
    /\ pc = "returned" /\ op = "CallChunked" /\ err = NoErr
    /\ cooldown > 0 /\ Len(chunks) = 3 /\ Len(pauses) = 2
    /\ Len(reqLog) = 3

\* C13. Chunk size bound: for size > 0 and an input of at least 2 and at
\* least size elements, chunkInputs returns floor(len / size) chunks of
\* exactly size elements, followed by one chunk of len mod size elements
\* exactly when that remainder is not zero.
C13_ChunkSizes ==
    (cDone /\ cSize > 0 /\ Len(cItems) >= 2 /\ cSize <= Len(cItems)) =>
        LET q == Len(cItems) \div cSize
            r == Len(cItems) % cSize
        IN  /\ Len(cChunks) = (IF r > 0 THEN q + 1 ELSE q)
            /\ \A c \in 1..q : Len(cChunks[c]) = cSize
            /\ r > 0 => Len(cChunks[q + 1]) = r

\* A full chunk of more than one element followed by a shorter remainder.
C13_Witness ==
    /\ cDone /\ cSize >= 2 /\ Len(cItems) > cSize
    /\ Len(cItems) % cSize # 0
    /\ Len(cChunks) = (Len(cItems) \div cSize) + 1
    /\ Len(cChunks[1]) = cSize
    /\ Len(cChunks[Len(cChunks)]) = Len(cItems) % cSize

\* C14. Degenerate chunking: chunkInputs returns no chunk for an empty
\* input, and for a non-empty input exactly one chunk, the input itself,
\* whenever size <= 0, the input has one element, or size >= len.
C14_Degenerate ==
    cDone =>
        /\ cItems = <<>> => cChunks = <<>>
        /\ (cItems # <<>> /\ (cSize <= 0 \/ Len(cItems) = 1 \/ cSize >= Len(cItems)))
              => cChunks = <<cItems>>

\* A size equal to the length of a longer input: one chunk, not split.
C14_Witness ==
    /\ cDone /\ Len(cItems) >= 2 /\ cSize = Len(cItems)
    /\ cChunks = <<cItems>>

\* A chunked operation that split its input into several chunks returned
\* because the remote invocation of a chunk after the first failed.
LaterChunkFailedRemotely ==
    /\ pc = "returned" /\ Chunked /\ Len(chunks) >= 2
    /\ err.kind = "multicall" /\ err.chunk >= 1

\* C15 as stated. Unmodified list on chunked failure: when a chunk after
\* the first fails remotely, the error names the failing chunk and the
\* returned list is the input with no record's Failed or Outputs differing
\* from its value before the operation started.
C15_UnmodifiedAsStated ==
    LaterChunkFailedRemotely =>
        /\ err.chunk = ci
        /\ ret = calls
        /\ \A p \in Range(calls) :
              /\ heap[p].Failed = heap0[p].Failed
              /\ heap[p].Outputs = heap0[p].Outputs

\* C15. Original list on chunked failure: when a chunk after the first
\* fails remotely, the error names the failing chunk and the returned list
\* is the input list, same records in the same order; the records of the
\* failing chunk and of the later chunks are as they were before the
\* operation, while the records of the earlier chunks keep the outcomes
\* those chunks' responses wrote onto them in place.
C15_OriginalListOnChunkFailure ==
    LaterChunkFailedRemotely =>
        /\ err.chunk = ci /\ ci = Len(reqLog) - 1 /\ ci < Len(chunks)
        /\ Last(respLog).err # "none"
        /\ ret = calls
        /\ \A p \in Range(calls) :
              /\ heap[p].Target = heap0[p].Target
              /\ heap[p].Method = heap0[p].Method
              /\ heap[p].CanFail = heap0[p].CanFail
        /\ \A c \in (ci + 1)..Len(chunks) : \A p \in Range(chunks[c]) :
              p \notin written /\ heap[p] = heap0[p]
        /\ \A c \in 1..ci :
              /\ respLog[c].err = "none"
              /\ Len(respLog[c].results) <= Len(chunks[c])
              /\ \A j \in 1..Len(chunks[c]) :
                    LET p == chunks[c][j]
                    IN  IF j <= Len(respLog[c].results)
                        THEN /\ p \in written
                             /\ heap[p].Failed = ~respLog[c].results[j].Success
                             /\ heap[p].Outputs = Decode[respLog[c].results[j].ReturnData]
                        ELSE p \notin written /\ heap[p] = heap0[p]

\* The third of three chunks failed remotely: the whole input comes back,
\* its first two records rewritten by their chunks, its third untouched.
C15_Witness ==
    /\ pc = "returned" /\ op = "CallChunked" /\ Len(chunks) = 3
    /\ err.kind = "multicall" /\ err.chunk = 2
    /\ ret = calls /\ Len(calls) = 3
    /\ heap[1].Outputs # heap0[1].Outputs
    /\ heap[2].Failed # heap0[2].Failed
    /\ heap[3] = heap0[3]

\* C16. Call Record frame: no step changes the invoker's list or a
\* record's target, method or tolerance flag, and a step changes a
\* record's Failed or Outputs only while unpacking the response entry at
\* that record's own position in the response to the latest remote
\* invocation, whose request carried the record at that position.
C16_RecordFrame ==
    [][ /\ calls' = calls
        /\ \A p \in Ptr :
              /\ heap'[p].Target = heap[p].Target
              /\ heap'[p].Method = heap[p].Method
              /\ heap'[p].CanFail = heap[p].CanFail
              /\ (heap'[p].Failed # heap[p].Failed \/ heap'[p].Outputs # heap[p].Outputs) =>
                    /\ pc = "unpack" /\ i < Len(results) /\ i < Len(cur)
                    /\ cur[i + 1] = p
                    /\ reqLog # <<>> /\ Len(reqLog) = Len(respLog)
                    /\ Last(respLog).err = "none"
                    /\ Last(respLog).results = results
                    /\ i < Len(Last(reqLog).calls)
                    /\ Last(reqLog).calls[i + 1] = EntryFor(p)
                    /\ written' = written \cup {p} ]_vars

\* A best-effort chunked call has rewritten the second record from the
\* response to the second chunk and nothing else of it or of the list.
C16_Witness ==
    /\ op = "TryCallChunked" /\ Len(chunks) >= 2 /\ ci = 1 /\ pc = "unpack" /\ i = 1
    /\ chunks[2][1] = 2 /\ 2 \in written
    /\ heap[2].Failed # heap0[2].Failed /\ heap[2].Outputs # heap0[2].Outputs
    /\ heap[2].Target = heap0[2].Target /\ heap[2].CanFail = heap0[2].CanFail
    /\ heap[3] = heap0[3]

\* What unpacking the entries j.. of response res onto list leaves, computed
\* in one piece: the records, the verdict, and whether an entry had no
\* record to go to.
RECURSIVE Demux(_, _, _, _)
Demux(h, list, res, j) ==
    IF j > Len(res) THEN [heap |-> h, err |-> NoErr, panic |-> FALSE]
    ELSE IF j > Len(list) THEN [heap |-> h, err |-> NoErr, panic |-> TRUE]
    ELSE LET p  == list[j]
             h1 == [h EXCEPT ![p].Failed = ~res[j].Success]
         IN  IF Decodes(res[j].ReturnData)
             THEN Demux([h1 EXCEPT ![p].Outputs = Decode[res[j].ReturnData]],
                        list, res, j + 1)
             ELSE [heap |-> h1, err |-> UnpackErr(j - 1), panic |-> FALSE]

\* What a single-shot Call / TryCall on list leaves when the remote side
\* answers its one invocation with outcome o.
SingleShot(h, list, o) ==
    LET bad == {j \in 1..Len(list) : ~Pack(h[list[j]]).ok}
    IN  IF bad # {}
        THEN [heap |-> h, panic |-> FALSE,
              err |-> PackErr((CHOOSE j \in bad : \A k \in bad : j <= k) - 1)]
        ELSE IF o.err # "none"
        THEN [heap |-> h, panic |-> FALSE, err |-> MulticallErr]
        ELSE Demux(h, list, o.results, 1)

\* The single-shot outcome on the whole input under the remote behaviour
\* observed in this run.
Reference ==
    SingleShot(heap0, calls,
               IF respLog = <<>> THEN [err |-> "none", at |-> 0, results |-> <<>>]
               ELSE respLog[1])

\* The chunked operation was given a non-empty list and a chunk size that
\* is not positive or not below the length of the list.
Degenerate ==
    Chunked /\ calls # <<>> /\ (chunkSize <= 0 \/ chunkSize >= Len(calls))

C18_InvocationCount ==
    /\ Chunked =>
          /\ Len(reqLog) <= Len(chunks)
          /\ Len(reqLog) <= ci + 1
          /\ pc = "unpack" => Len(reqLog) = ci + 1
          /\ pc = "loop" => Len(reqLog) = ci
          /\ (pc = "returned" /\ err = NoErr) => Len(reqLog) = Len(chunks)
    /\ (Chunked /\ calls = <<>>) =>
          /\ pc \in {"entry", "loop", "returned"}
          /\ chunks = <<>> /\ reqLog = <<>> /\ packed = {} /\ written = {}
          /\ pc = "returned" => ret = <<>> /\ err = NoErr
    /\ ~Chunked =>
          /\ Len(reqLog) <= 1
          /\ pc \in {"unpack", "panicked"} => Len(reqLog) = 1
          /\ (pc = "returned" /\ err.kind # "pack") => Len(reqLog) = 1
    /\ (~Chunked /\ calls = <<>> /\ pc \in {"unpack", "returned", "panicked"}) =>
          /\ Len(reqLog) = 1 /\ reqLog[1].calls = <<>>
          /\ reqLog[1].method = (IF Strict THEN "aggregate3" ELSE "tryAggregate")

\* A best-effort chunked call on three calls in chunks of two returned a
\* nil error after two remote invocations.
C18_Witness ==
    /\ pc = "returned" /\ op = "TryCallChunked" /\ err = NoErr
    /\ Len(calls) = 3 /\ chunkSize = 2 /\ Len(chunks) = 2
    /\ Len(reqLog) = 2 /\ Len(reqLog[1].calls) = 2 /\ Len(reqLog[2].calls) = 1

\* C19. Short response: when the response has fewer entries than the
\* request, Call / TryCall write outcomes onto the records at the positions
\* below the response length only, leave every later record as it was
\* before the operation, and, no processed entry failing to unpack, return
\* the full list and a nil error.
C19_ShortResponse ==
    /\ (pc = "unpack" /\ i <= Len(cur)) =>
          written \cap Range(cur) = {cur[j] : j \in 1..i}
    /\ (~Chunked /\ pc = "returned" /\ respLog # <<>> /\ Last(respLog).err = "none"
          /\ Len(results) < Len(calls)) =>
          /\ results = Last(respLog).results
          /\ \A j \in (Len(results) + 1)..Len(calls) :
                calls[j] \notin written /\ heap[calls[j]] = heap0[calls[j]]
          /\ ret = calls
          /\ (\A j \in 1..Len(results) : Decodes(results[j].ReturnData)) =>
                /\ err = NoErr
                /\ written = {calls[j] : j \in 1..Len(results)}
                /\ \A j \in 1..Len(results) :
                      /\ heap[calls[j]].Failed = ~results[j].Success
                      /\ heap[calls[j]].Outputs = Decode[results[j].ReturnData]

\* Call on three calls got one entry back: the first record carries it,
\* the other two are as they were, and the error is nil.
C19_Witness ==
    /\ pc = "returned" /\ op = "Call" /\ err = NoErr
    /\ Len(calls) = 3 /\ Len(results) = 1 /\ ret = calls
    /\ written = {1} /\ heap[1] # heap0[1]
    /\ heap[2] = heap0[2] /\ heap[3] = heap0[3]

====
